---------------------------- MODULE Spec2Model ----------------------------
(***************************************************************************)
(* Model of the two sketches of the repository:                            *)
(*   examples/Debug_GNSS.cpp   - the bring-up diagnostic (sweep in setup)  *)
(*   examples/GPSwithOLED.cpp  - the position display (polling loop)       *)
(* Bytes and characters are integers 0..255, C strings are sequences of    *)
(* them.  Clocks are the uint32_t value returned by millis().              *)
(***************************************************************************)
EXTENDS Integers, Sequences, FiniteSets, TLC

VARIABLES
    \* ---- Debug_GNSS.cpp ----
    dpc,        \* position of the diagnostic inside setup()/loop()
    p,          \* for (int p ...) of setup
    w,          \* for (int w ...) of setup
    call,       \* which of the six tryCombo calls of the loop body is next
    dnow,       \* millis() of the diagnostic
    endAt,      \* dumpForMs: endAt
    cnt,        \* dumpForMs: cnt
    startAt,    \* millis() at the entry of the running dumpForMs
    pins,       \* the level last written to each output pin (-1: never written)
    uart,       \* the configuration of Serial1: <<rx, tx, baud>>, <<>> when ended
    dumpLine,   \* the groups dumpForMs has printed on the current console line
    lastCount,  \* the number printed after "bytes read: " (-1: none yet)
    windows,    \* the capture windows started so far, in order, each with the
                \* power level, the wake level and the transport it runs under
    trace,      \* pin writes, transport calls and console markers, in order
    \* ---- hex/ASCII rendering of one byte ----
    hb,         \* the byte handed to the rendering
    hout,       \* what the rendering printed for it
    hpc,
    \* ---- GPSwithOLED.cpp ----
    pc,             \* position of the display program inside setup()/loop()
    now,            \* millis()
    rxFifo,         \* bytes received by Serial1 and not yet read
    quota,          \* lines the receiver may still send (-1: any number)
    txtBuf,         \* static char txtBuf[80]
    idx,            \* static uint8_t idx
    oob,            \* a write outside txtBuf has happened
    antennaOpen,
    lastAntennaMsg,
    lastUi,         \* static uint32_t lastUi
    gps,            \* the validity and update flags of GPS.time and GPS.location
    counter,        \* static int counter
    fb,             \* the frame the render pass is drawing
    shown,          \* the frame last sent to the panel by display.display()
    curLine,        \* the bytes read since the last line terminator
    lineDone,       \* at a line terminator: the line it ends, terminator included
    examined,       \* at a line terminator: the text loop examines for the keyword
    gclock,         \* milliseconds elapsed since the initial state
    gStatusAt,      \* gclock at the last antenna-status update (-1: none yet)
    gLastRender,    \* gclock at the last lastUi = millis() (0: boot)
    gTicks,         \* the SEARCHING render passes so far, modulo 500
    rxLog,          \* the bytes of the burst received last, in arrival order
    encoded         \* the bytes of that burst handed to GPS.encode, in order

diagVars == <<dpc, p, w, call, dnow, endAt, cnt, startAt, pins, uart, dumpLine,
              lastCount, windows, trace>>
hexVars  == <<hb, hout, hpc>>
dispVars == <<pc, now, rxFifo, quota, txtBuf, idx, oob, antennaOpen,
              lastAntennaMsg, lastUi, gps, counter, fb, shown, curLine,
              lineDone, examined, gclock, gStatusAt, gLastRender, gTicks,
              rxLog, encoded>>
vars     == <<diagVars, hexVars, dispVars>>

-----------------------------------------------------------------------------
(* Arithmetic of the C types *)

(* A uint32_t clock value is the pair of its 16-bit halves, hi * 2^16 + lo:  *)
(* 2^32 itself is beyond the integers of the model checker.  Everything is  *)
(* computed modulo 2^32, as the C unsigned arithmetic does.                 *)

Half == 256 * 256

\* the uint32_t of a number 0 <= n < 2^31
U32(n) == [hi |-> n \div Half, lo |-> n % Half]

\* a + n (mod 2^32), n a number 0 <= n < 2^30
U32Add(a, n) ==
    LET l == a.lo + n
    IN  [hi |-> (a.hi + (l \div Half)) % Half, lo |-> l % Half]

\* (a difference that does not wrap: 0 when a < b)
U32SubNoWrap(a, b) ==
    IF a.hi < b.hi \/ (a.hi = b.hi /\ a.lo < b.lo)
      THEN [hi |-> 0, lo |-> 0]
      ELSE [hi |-> a.hi - b.hi - (IF a.lo < b.lo THEN 1 ELSE 0),
            lo |-> (a.lo - b.lo + Half) % Half]

\* a - b (mod 2^32)
U32Sub(a, b) ==
    LET borrow == IF a.lo < b.lo THEN 1 ELSE 0
    IN  [hi |-> (a.hi - b.hi - borrow + 2 * Half) % Half,
         lo |-> (a.lo - b.lo + Half) % Half]

\* a < b, both uint32_t
U32Less(a, b) == a.hi < b.hi \/ (a.hi = b.hi /\ a.lo < b.lo)

U32Min(a, b) == IF U32Less(a, b) THEN a ELSE b

(* An int is a 32-bit two's-complement number *)
IntMax == 2147483647
IntMin == (-2147483647) - 1

\* a / b and a % b of C for b > 0: the quotient is truncated toward zero and
\* the remainder has the sign of a
CDiv(a, b) == IF a < 0 /\ a % b # 0 THEN (a \div b) + 1 ELSE a \div b
CMod(a, b) == a - b * CDiv(a, b)

\* n++ of an int n.  At INT_MAX the increment overflows, which is undefined:
\* the add instruction wraps to INT_MIN, and a build that relies on "no
\* overflow" may as well leave the value where it is.
IntOverflow == {IntMin, IntMax}
IntInc(n) == IF n < IntMax THEN {n + 1} ELSE IntOverflow

-----------------------------------------------------------------------------
(* Debug_GNSS.cpp: constants *)

VGNSS_CTRL == 34
GNSS_WAKE  == 40
GNSS_RST   == 42
RXA == 39
TXA == 38
RXB == 38
TXB == 39
LOW  == 0
HIGH == 1
DUMP_MS == 3000            \* dumpForMs(3000) in tryCombo

\* Bounds of the model
MaxBytes == 2              \* bytes the transport delivers within one window

\* The bytes the transport delivers in the diagnostic runs
ByteSamples == {0, 65}
\* millis() moves on by one of these between two polls of an idle window ...
SpinSteps == {999, 1000}
\* ... and by one of these while one byte is read and printed
ByteSteps == {0, 1}
\* ... and by one of these while the bytes of a stream are read and printed
StreamSteps == {1000}

-----------------------------------------------------------------------------
(* Serial.print(b, HEX): Print::printNumber(n, 16), most significant digit  *)
(* first, digits above 9 as 'A'..'F'                                        *)

HexDigitChar(c) == IF c < 10 THEN c + 48 ELSE c + 65 - 10

RECURSIVE PrintNumber(_, _)
PrintNumber(n, base) ==
    IF n < base THEN <<HexDigitChar(n)>>
    ELSE Append(PrintNumber(n \div base, base), HexDigitChar(n % base))

\* (without the leading '0' of line 94)
RenderByteNoPad(b) ==
    PrintNumber(b, 16) \o <<32>>
      \o (IF b >= 32 /\ b <= 126 THEN <<b>> ELSE <<46>>) \o <<32>>

\* dumpForMs, lines 93-101: what is printed for one byte b
RenderByte(b) ==
    (IF b < 16 THEN <<48>> ELSE <<>>) \o PrintNumber(b, 16) \o <<32>>
      \o (IF b >= 32 /\ b <= 126 THEN <<b>> ELSE <<46>>) \o <<32>>

-----------------------------------------------------------------------------
(* Debug_GNSS.cpp: setup() *)

\* (the second and third call with their baud rates exchanged)
ComboArgsSwapped(k) ==
    CASE k = 1 -> <<RXA, TXA, 9600>>
      [] k = 2 -> <<RXA, TXA, 115200>>
      [] k = 3 -> <<RXA, TXA, 38400>>
      [] k = 4 -> <<RXB, TXB, 9600>>
      [] k = 5 -> <<RXB, TXB, 38400>>
      [] k = 6 -> <<RXB, TXB, 115200>>

\* The arguments of the six tryCombo calls of the loop body, lines 149-156
ComboArgs(k) ==
    CASE k = 1 -> <<RXA, TXA, 9600>>
      [] k = 2 -> <<RXA, TXA, 38400>>
      [] k = 3 -> <<RXA, TXA, 115200>>
      [] k = 4 -> <<RXB, TXB, 9600>>
      [] k = 5 -> <<RXB, TXB, 38400>>
      [] k = 6 -> <<RXB, TXB, 115200>>

NumCalls == 6              \* the tryCombo calls of the loop body
NumPower == 2              \* p < 2
NumWakeOne == 2 - 1         \* (w < 1)
NumWake == 2               \* w < 2

DiagInit ==
    /\ dpc = "setup"
    /\ p = 0 /\ w = 0 /\ call = 1
    /\ dnow = U32(0)
    /\ endAt = U32(0) /\ cnt = 0 /\ startAt = U32(0)
    /\ pins = [n \in {VGNSS_CTRL, GNSS_WAKE, GNSS_RST} |-> -1]
    /\ uart = <<>>
    /\ dumpLine = <<>>
    /\ lastCount = -1
    /\ windows = <<>>
    /\ trace = <<>>

\* lines 128-134: Serial.begin, delay(300), the banner, p = 0
SetupBegin ==
    /\ dpc = "setup"
    /\ UNCHANGED <<hexVars, dispVars>>
    /\ dnow' = U32Add(dnow, 300)
    /\ p' = 0
    /\ dpc' = "forP"
    /\ UNCHANGED <<w, call, endAt, cnt, startAt, pins, uart, dumpLine, lastCount, windows, trace>>

\* line 134 and line 160: the test of the outer loop, "DONE" at its exit
ForP ==
    /\ dpc = "forP"
    /\ UNCHANGED <<hexVars, dispVars>>
    /\ IF p < NumPower
         THEN /\ w' = 0
              /\ dpc' = "forW"
              /\ trace' = trace
         ELSE /\ w' = w
              /\ dpc' = "loop"
              /\ trace' = Append(trace, <<"DONE", 0, 0, 0>>)
    /\ UNCHANGED <<p, call, dnow, endAt, cnt, startAt, pins, uart, dumpLine, lastCount, windows>>

\* lines 135-142: the test of the inner loop, the header of a combination
ForW ==
    /\ dpc = "forW"
    /\ UNCHANGED <<hexVars, dispVars>>
    /\ IF w < NumWake
         THEN /\ dpc' = "power"
              /\ p' = p
              /\ trace' = Append(trace, <<"header", p, w, 0>>)
         ELSE /\ dpc' = "forP"
              /\ p' = p + 1
              /\ trace' = trace
    /\ UNCHANGED <<w, call, dnow, endAt, cnt, startAt, pins, uart, dumpLine, lastCount, windows>>

\* line 144, lines 79-83
SetGnssPower ==
    /\ dpc = "power"
    /\ UNCHANGED <<hexVars, dispVars>>
    /\ pins' = [pins EXCEPT ![VGNSS_CTRL] = IF p # 0 THEN HIGH ELSE LOW]
    /\ trace' = Append(trace, <<"pin", VGNSS_CTRL, IF p # 0 THEN HIGH ELSE LOW, 0>>)
    /\ dnow' = U32Add(dnow, 300)
    /\ dpc' = "wake"
    /\ UNCHANGED <<p, w, call, endAt, cnt, startAt, uart, dumpLine, lastCount, windows>>

\* line 145, lines 73-77
SetWake ==
    /\ dpc = "wake"
    /\ UNCHANGED <<hexVars, dispVars>>
    /\ pins' = [pins EXCEPT ![GNSS_WAKE] = IF w # 0 THEN HIGH ELSE LOW]
    /\ trace' = Append(trace, <<"pin", GNSS_WAKE, IF w # 0 THEN HIGH ELSE LOW, 0>>)
    /\ dnow' = U32Add(dnow, 200)
    /\ dpc' = "reset"
    /\ UNCHANGED <<p, w, call, endAt, cnt, startAt, uart, dumpLine, lastCount, windows>>

\* line 146, lines 65-71
PulseReset ==
    /\ dpc = "reset"
    /\ UNCHANGED <<hexVars, dispVars>>
    /\ pins' = [pins EXCEPT ![GNSS_RST] = HIGH]
    /\ trace' = trace \o << <<"pin", GNSS_RST, LOW, 0>>, <<"pin", GNSS_RST, HIGH, 0>> >>
    /\ dnow' = U32Add(dnow, 80 + 500)
    /\ call' = 1
    /\ dpc' = "try"
    /\ UNCHANGED <<p, w, endAt, cnt, startAt, uart, dumpLine, lastCount, windows>>

\* (Serial1.begin before Serial1.end)
ComboEventsBeginFirst(a) ==
    << <<"combo", a[1], a[2], a[3]>>,
       <<"begin", a[1], a[2], a[3]>>,
       <<"end", 0, 0, 0>> >>

\* lines 110-121: the header, Serial1.end(), Serial1.begin(baud, ..., rx, tx)
ComboEvents(a) ==
    << <<"combo", a[1], a[2], a[3]>>,
       <<"end", 0, 0, 0>>,
       <<"begin", a[1], a[2], a[3]>> >>

\* lines 109-122: the header, Serial1.end(), delay(50), Serial1.begin(), delay(200)
TryCombo ==
    /\ dpc = "try"
    /\ UNCHANGED <<hexVars, dispVars>>
    /\ trace' = trace \o ComboEvents(ComboArgs(call))
    /\ uart' = ComboArgs(call)
    /\ dnow' = U32Add(dnow, 50 + 200)
    /\ dpc' = "dump"
    /\ UNCHANGED <<p, w, call, endAt, cnt, startAt, pins, dumpLine, lastCount, windows>>

\* (cnt a static variable: not set to 0 at the entry)
DumpStartStaticCount ==
    /\ dpc = "dump"
    /\ UNCHANGED <<hexVars, dispVars>>
    /\ endAt' = U32Add(dnow, DUMP_MS)
    /\ cnt' = cnt
    /\ startAt' = dnow
    /\ dumpLine' = <<>>
    /\ windows' = Append(windows, <<pins[VGNSS_CTRL], pins[GNSS_WAKE]>> \o uart)
    /\ trace' = Append(trace, <<"window", 0, 0, 0>>)
    /\ dpc' = "outer"
    /\ UNCHANGED <<p, w, call, dnow, pins, uart, lastCount>>

\* line 124, lines 86-87: the entry of dumpForMs(3000)
DumpStart ==
    /\ dpc = "dump"
    /\ UNCHANGED <<hexVars, dispVars>>
    /\ endAt' = U32Add(dnow, DUMP_MS)
    /\ cnt' = 0
    /\ startAt' = dnow
    /\ dumpLine' = <<>>
    /\ windows' = Append(windows, <<pins[VGNSS_CTRL], pins[GNSS_WAKE]>> \o uart)
    /\ trace' = Append(trace, <<"window", 0, 0, 0>>)
    /\ dpc' = "outer"
    /\ UNCHANGED <<p, w, call, dnow, pins, uart, lastCount>>

\* line 88: while (millis() < endAt)
DumpOuter ==
    /\ dpc = "outer"
    /\ UNCHANGED <<hexVars, dispVars>>
    /\ dpc' = IF U32Less(dnow, endAt) THEN "inner" ELSE "print"
    /\ UNCHANGED <<p, w, call, dnow, endAt, cnt, startAt, pins, uart, dumpLine, lastCount,
                   windows, trace>>

\* lines 89-102: Serial1.available() is true, one byte is read and printed
DumpByte ==
    /\ dpc = "inner"
    /\ UNCHANGED <<hexVars, dispVars>>
    /\ cnt < MaxBytes
    /\ \E b \in ByteSamples, d \in ByteSteps :
         /\ cnt' = cnt + 1
         /\ dumpLine' = Append(dumpLine, RenderByte(b))
         /\ dnow' = U32Add(dnow, d)
    /\ UNCHANGED <<dpc, p, w, call, endAt, startAt, pins, uart, lastCount, windows, trace>>

\* line 89: Serial1.available() is false, back to the test of line 88.  The
\* idle loop polls many times per millisecond, so it sees every value of
\* millis() up to the deadline.
DumpIdle ==
    /\ dpc = "inner"
    /\ UNCHANGED <<hexVars, dispVars>>
    /\ \E d \in SpinSteps :
         dnow' = IF U32Less(dnow, endAt) THEN U32Min(U32Add(dnow, d), endAt) ELSE dnow
    /\ dpc' = "outer"
    /\ UNCHANGED <<p, w, call, endAt, cnt, startAt, pins, uart, dumpLine, lastCount, windows, trace>>

\* lines 104-106, and the return to the next statement of setup's loop body
DumpEnd ==
    /\ dpc = "print"
    /\ UNCHANGED <<hexVars, dispVars>>
    /\ lastCount' = cnt
    /\ trace' = Append(trace, <<"count", 0, 0, 0>>)
    /\ IF call < NumCalls
         THEN /\ call' = call + 1
              /\ w' = w
              /\ dpc' = "try"
         ELSE /\ call' = call
              /\ w' = w + 1
              /\ dpc' = "forW"
    /\ UNCHANGED <<p, dnow, endAt, cnt, startAt, pins, uart, dumpLine, windows>>

\* line 163: void loop() {}
Loop ==
    /\ dpc = "loop"
    /\ UNCHANGED vars

\* line 89: Serial1.available() is true, the receiver streams
StreamAvailable ==
    /\ dpc = "inner"
    /\ UNCHANGED <<hexVars, dispVars>>
    /\ dpc' = "read"
    /\ UNCHANGED <<p, w, call, dnow, endAt, cnt, startAt, pins, uart, dumpLine, lastCount,
                   windows, trace>>

\* lines 90-102 for the bytes of a stream, and back to the test of line 89.
\* Nothing in the two loops reads the count or the printed line, and of
\* millis() only whether the deadline is reached: the count is followed up
\* to MaxBytes, the printed line not at all, the clock up to 1 ms past the
\* deadline.
StreamRead ==
    /\ dpc = "read"
    /\ UNCHANGED <<hexVars, dispVars>>
    /\ cnt' = IF cnt < MaxBytes THEN cnt + 1 ELSE cnt
    /\ \E d \in StreamSteps :
         dnow' = U32Min(U32Add(dnow, d), U32Add(endAt, 1))
    /\ dpc' = "inner"
    /\ UNCHANGED <<p, w, call, endAt, startAt, pins, uart, dumpLine, lastCount, windows, trace>>

\* the diagnostic with a receiver that may stream without a pause
DiagStreamNext ==
    \/ SetupBegin \/ ForP \/ ForW \/ SetGnssPower \/ SetWake \/ PulseReset
    \/ TryCombo \/ DumpStart \/ DumpOuter \/ StreamAvailable \/ StreamRead
    \/ DumpIdle \/ DumpEnd \/ Loop

DiagNext ==
    \/ SetupBegin \/ ForP \/ ForW \/ SetGnssPower \/ SetWake \/ PulseReset
    \/ TryCombo \/ DumpStart \/ DumpOuter \/ DumpByte \/ DumpIdle \/ DumpEnd
    \/ Loop

-----------------------------------------------------------------------------
(* The rendering of dumpForMs applied to every byte value *)

HexInit ==
    /\ hb \in 0..255
    /\ hout = <<>>
    /\ hpc = "in"

\* lines 90-101 for the byte hb
HexRender ==
    /\ hpc = "in"
    /\ UNCHANGED <<diagVars, dispVars>>
    /\ hout' = RenderByte(hb)
    /\ hpc' = "out"
    /\ hb' = hb

\* the next byte of the stream
HexNextByte ==
    /\ hpc = "out"
    /\ UNCHANGED <<diagVars, dispVars>>
    /\ hb' \in 0..255
    /\ hout' = <<>>
    /\ hpc' = "in"

HexNext == HexRender \/ HexNextByte

-----------------------------------------------------------------------------
(* GPSwithOLED.cpp: constants *)

TxtBufSize == 80           \* static char txtBuf[80]
UI_PERIOD_MS == 1000       \* millis() - lastUi >= 1000
BADGE_MS == 5000           \* millis() - lastAntennaMsg < 5000
SETUP_MS == 200 + 100 + 200 + 50 + 500   \* the delays of setup() and gnssPowerOn()

NUL == 0
NL == 10                   \* '\n'
DOLLAR == 36               \* '$'
ANTENNA == <<65, 78, 84, 69, 78, 78, 65>>
OPEN == <<79, 80, 69, 78>>

\* Bounds of the model
MaxLines == 3              \* lines the receiver sends in SpecLine
PadLen == 73               \* length of the filler of an overlong line
BadgeHorizon == 7100       \* the clock stops advancing after this many ms
UiHorizon == 3100          \*   (one horizon for each specification)
LineHorizon == 2100

Pad == [k \in 1..PadLen |-> 120]

\* What the receiver sends while the line sniffing is examined: lines with
\* and without the keywords, with and without a leading '$', with a '$' or a
\* NUL inside, shorter and longer than the buffer
LineSet ==
    { <<DOLLAR>> \o ANTENNA \o <<32>> \o OPEN \o <<NL>>,
      <<DOLLAR>> \o ANTENNA \o <<NL>>,
      <<DOLLAR, NL>>,
      OPEN \o <<NL>>,
      OPEN \o ANTENNA \o <<DOLLAR, NL>>,
      <<NUL>> \o ANTENNA \o <<NL>>,
      Pad \o ANTENNA \o <<NL>>,
      ANTENNA \o OPEN \o Pad \o <<NL>>,
      Pad \o Pad \o <<DOLLAR>> \o ANTENNA \o <<NL>>,
      <<NL>> }

\* What the receiver sends while the badge and the redraw logic are
\* examined: whole lines
StatusLines ==
    { <<DOLLAR>> \o ANTENNA \o <<32>> \o OPEN \o <<NL>>,
      <<DOLLAR>> \o ANTENNA \o <<NL>> }
UiWords == StatusLines \cup { <<DOLLAR, NL>> }

\* The fields a sentence may make the parser commit
AnyCommit == SUBSET {"time", "loc"}
NoCommit == { {} }

TickSteps == {1000}

\* The display program long after boot: the clock is about to wrap, the
\* counter of the SEARCHING passes is about to pass a multiple of 500 or has
\* reached INT_MAX
WrapMargin == 500          \* the clock is this many ms before 2^32
LateHorizon == 2200
FairHorizon == 4100
MaxLateLines == 2
NearWrap == [hi |-> Half - 1, lo |-> Half - WrapMargin]
LateCounters == {499, IntMax}
LateSteps == {400, 600}
LateLines == { <<DOLLAR, NL>> }

-----------------------------------------------------------------------------
(* C strings *)

\* the text strstr reads in buf: the bytes before the first NUL
CStr(buf) ==
    LET nuls == {i \in 0..(TxtBufSize - 1) : buf[i] = NUL}
        n == IF nuls = {} THEN TxtBufSize
             ELSE CHOOSE i \in nuls : \A j \in nuls : i <= j
    IN  [k \in 1..n |-> buf[k - 1]]

\* strstr(s, kw) != NULL
Contains(s, kw) ==
    \E i \in 1..(Len(s) - Len(kw) + 1) : SubSeq(s, i, i + Len(kw) - 1) = kw

\* txtBuf[i] = v; a write outside the array leaves the array as it is
WriteBuf(buf, i, v) == IF i < TxtBufSize THEN [buf EXCEPT ![i] = v] ELSE buf

\* millis() / 1000
U32Div1000(a) ==
    (a.hi \div 1000) * Half + (((a.hi % 1000) * Half + a.lo) \div 1000)

-----------------------------------------------------------------------------
(* GPSwithOLED.cpp: setup() and loop() *)

NoFrame == [mode |-> "none", progress |-> 0, badge |-> "none", up |-> 0]

DispInit(q) ==
    /\ pc = "setup"
    /\ now = U32(0)
    /\ rxFifo = <<>>
    /\ quota = q
    /\ txtBuf = [i \in 0..(TxtBufSize - 1) |-> NUL]
    /\ idx = 0
    /\ oob = FALSE
    /\ antennaOpen = FALSE
    /\ lastAntennaMsg = U32(0)
    /\ lastUi = U32(0)
    /\ gps = [timeValid |-> FALSE, timeUpdated |-> FALSE,
              locValid |-> FALSE, locUpdated |-> FALSE]
    /\ counter = 0
    /\ fb = NoFrame
    /\ shown = NoFrame
    /\ curLine = <<>>
    /\ lineDone = <<>>
    /\ examined = <<>>
    /\ gclock = 0
    /\ gStatusAt = -1
    /\ gLastRender = 0
    /\ gTicks = 0
    /\ rxLog = <<>>
    /\ encoded = <<>>

\* line 149: int progress = (counter / 5) % 100
Progress(c) == CMod(CDiv(c, 5), 100)

\* The entry of loop() long after boot, no fix and no antenna status so far:
\* the render pass of the iteration before has drawn the SEARCHING frame and
\* counted itself
DispLate(q) ==
    /\ pc = "drain"
    /\ now = NearWrap
    /\ rxFifo = <<>>
    /\ quota = q
    /\ txtBuf = [i \in 0..(TxtBufSize - 1) |-> NUL]
    /\ idx = 0
    /\ oob = FALSE
    /\ antennaOpen = FALSE
    /\ lastAntennaMsg = U32(0)
    /\ lastUi = NearWrap
    /\ gps = [timeValid |-> FALSE, timeUpdated |-> FALSE,
              locValid |-> FALSE, locUpdated |-> FALSE]
    /\ counter \in LateCounters
    /\ fb = [mode |-> "search", progress |-> Progress(counter - 1),
             badge |-> "none", up |-> U32Div1000(NearWrap)]
    /\ shown = fb
    /\ curLine = <<>>
    /\ lineDone = <<>>
    /\ examined = <<>>
    /\ gclock = 0
    /\ gStatusAt = -1
    /\ gLastRender = 0
    /\ gTicks = counter % 500
    /\ rxLog = <<>>
    /\ encoded = <<>>

\* lines 84-103: the delays of setup and gnssPowerOn, the "Initializing ..." frame
DispSetup ==
    /\ pc = "setup"
    /\ UNCHANGED <<diagVars, hexVars>>
    /\ now' = U32Add(now, SETUP_MS)
    /\ gclock' = gclock + SETUP_MS
    /\ fb' = [NoFrame EXCEPT !.mode = "init"]
    /\ shown' = [NoFrame EXCEPT !.mode = "init"]
    /\ pc' = "drain"
    /\ UNCHANGED <<rxFifo, quota, txtBuf, idx, oob, antennaOpen, lastAntennaMsg,
                   lastUi, gps, counter, curLine, lineDone, examined, gStatusAt,
                   gLastRender, gTicks, rxLog, encoded>>

\* The receiver sends a line; its bytes wait in the receive buffer of Serial1
Arrive(lines) ==
    /\ pc = "drain"
    /\ UNCHANGED <<diagVars, hexVars>>
    /\ rxFifo = <<>>
    /\ quota # 0
    /\ quota' = IF quota > 0 THEN quota - 1 ELSE quota
    /\ \E ln \in lines : rxFifo' = ln /\ rxLog' = ln
    /\ encoded' = <<>>
    /\ UNCHANGED <<pc, now, txtBuf, idx, oob, antennaOpen, lastAntennaMsg, lastUi,
                   gps, counter, fb, shown, curLine, lineDone, examined, gclock, gStatusAt,
                   gLastRender, gTicks>>

\* GPS.encode(c), line 109: the end of a sentence may commit a new time, a
\* new location, both or neither; a commit marks the field valid and updated
GpsEncode(g, c, k) ==
    IF c = NL
      THEN [timeValid   |-> g.timeValid \/ "time" \in k,
            timeUpdated |-> g.timeUpdated \/ "time" \in k,
            locValid    |-> g.locValid \/ "loc" \in k,
            locUpdated  |-> g.locUpdated \/ "loc" \in k]
      ELSE g

\* lines 115-121: the index and the buffer after the byte c
IdxAtDollar(c) == IF c = DOLLAR THEN 0 ELSE idx
\* (idx < sizeof(txtBuf))
StoresOffByOne(c) == IdxAtDollar(c) < TxtBufSize
Stores(c) == IdxAtDollar(c) < TxtBufSize - 1
IdxAfter(c) == IF Stores(c) THEN (IdxAtDollar(c) + 1) % 256 ELSE IdxAtDollar(c)
\* (without txtBuf[idx] = 0)
BufAfterNoTerminator(c) ==
    IF Stores(c) THEN WriteBuf(txtBuf, IdxAtDollar(c), c) ELSE txtBuf
BufAfter(c) ==
    IF Stores(c)
      THEN WriteBuf(WriteBuf(txtBuf, IdxAtDollar(c), c), IdxAfter(c), NUL)
      ELSE txtBuf
WritesOutside(c) == Stores(c) /\ IdxAfter(c) >= TxtBufSize

\* (without the keyword test)
IsStatusAnyLine(c) == c = NL
\* lines 123-124: the status line test at a line terminator
IsStatus(c) == c = NL /\ Contains(CStr(BufAfter(c)), ANTENNA)

\* (antennaOpen = strstr(txtBuf, "ANTENNA"))
OpenFlagOfKeyword(c) == Contains(CStr(BufAfter(c)), ANTENNA)
\* line 125: antennaOpen = strstr(txtBuf, "OPEN")
OpenFlag(c) == Contains(CStr(BufAfter(c)), OPEN)

\* (GPS.encode(c) moved into the if of line 118)
ParserInputIfStored(c) == IF Stores(c) THEN <<c>> ELSE <<>>
\* line 109: what the pass for the byte c hands to GPS.encode
ParserInput(c) == <<c>>

\* the parser after it has been handed the bytes cs
RECURSIVE GpsEncodeAll(_, _, _)
GpsEncodeAll(g, cs, k) ==
    IF cs = <<>> THEN g ELSE GpsEncodeAll(GpsEncode(g, Head(cs), k), Tail(cs), k)

\* lines 107-129: Serial1.available() is true, one pass of the while body
ReadByte(commits) ==
    /\ pc = "drain"
    /\ UNCHANGED <<diagVars, hexVars>>
    /\ rxFifo # <<>>
    /\ LET c == Head(rxFifo) IN
         /\ rxFifo' = Tail(rxFifo)
         /\ \E k \in commits : gps' = GpsEncodeAll(gps, ParserInput(c), k)
         /\ encoded' = encoded \o ParserInput(c)
         /\ txtBuf' = BufAfter(c)
         /\ oob' = (oob \/ WritesOutside(c))
         /\ idx' = IF c = NL THEN 0 ELSE IdxAfter(c)
         /\ antennaOpen' = IF IsStatus(c) THEN OpenFlag(c) ELSE antennaOpen
         /\ lastAntennaMsg' = IF IsStatus(c) THEN now ELSE lastAntennaMsg
         /\ gStatusAt' = IF IsStatus(c) THEN gclock ELSE gStatusAt
         /\ curLine' = IF c = NL THEN <<>> ELSE Append(curLine, c)
         /\ lineDone' = IF c = NL THEN Append(curLine, c) ELSE <<>>
         /\ examined' = IF c = NL THEN CStr(BufAfter(c)) ELSE <<>>
    /\ UNCHANGED <<pc, now, quota, lastUi, counter, fb, shown, gclock, gLastRender,
                   gTicks, rxLog>>

\* line 107: Serial1.available() is false, the while loop ends
DrainDone ==
    /\ pc = "drain"
    /\ UNCHANGED <<diagVars, hexVars>>
    /\ rxFifo = <<>>
    /\ pc' = "ui"
    /\ UNCHANGED <<now, rxFifo, quota, txtBuf, idx, oob, antennaOpen,
                   lastAntennaMsg, lastUi, gps, counter, fb, shown, curLine,
                   lineDone, examined, gclock, gStatusAt, gLastRender, gTicks,
                   rxLog, encoded>>

\* lines 134-136
GpsUpdated == gps.locUpdated \/ gps.timeUpdated

\* (millis() - lastUi > 1000)
ElapsedStrict == U32Less(U32(UI_PERIOD_MS), U32Sub(now, lastUi))
\* (the redraw once per second left out)
RedrawDueOnUpdateOnly == gps.locUpdated \/ gps.timeUpdated
\* line 139
Elapsed == ~ U32Less(U32Sub(now, lastUi), U32(UI_PERIOD_MS))
RedrawDue == GpsUpdated \/ Elapsed

\* lines 133-139, and the return of loop() when no redraw is due
UiCheck ==
    /\ pc = "ui"
    /\ UNCHANGED <<diagVars, hexVars>>
    /\ pc' = IF RedrawDue THEN "render" ELSE "drain"
    /\ UNCHANGED <<now, rxFifo, quota, txtBuf, idx, oob, antennaOpen,
                   lastAntennaMsg, lastUi, gps, counter, fb, shown, curLine,
                   lineDone, examined, gclock, gStatusAt, gLastRender, gTicks,
                   rxLog, encoded>>

\* line 140
LastUiAfterRender == now

\* lines 140-186: the timestamp, display.clear() and the SEARCHING or LOCKED
\* content; reading a field's value clears its updated flag
Render ==
    /\ pc = "render"
    /\ UNCHANGED <<diagVars, hexVars>>
    /\ lastUi' = LastUiAfterRender
    /\ gLastRender' = gclock
    /\ IF ~ gps.timeValid /\ ~ gps.locValid
         THEN /\ fb' = [mode |-> "search", progress |-> Progress(counter),
                        badge |-> "none", up |-> 0]
              /\ counter' \in IntInc(counter)
              /\ gTicks' = (gTicks + 1) % 500
              /\ gps' = gps
         ELSE /\ fb' = [mode |-> "fix", progress |-> 0, badge |-> "none", up |-> 0]
              /\ counter' = counter
              /\ gTicks' = gTicks
              /\ gps' = [gps EXCEPT
                           !.timeUpdated = IF gps.timeValid THEN FALSE ELSE @,
                           !.locUpdated = IF gps.locValid THEN FALSE ELSE @]
    /\ pc' = "badge"
    /\ UNCHANGED <<now, rxFifo, quota, txtBuf, idx, oob, antennaOpen,
                   lastAntennaMsg, shown, curLine, lineDone, examined, gclock, gStatusAt,
                   rxLog, encoded>>

\* line 190
BadgeDue == U32Less(U32Sub(now, lastAntennaMsg), U32(BADGE_MS))

\* lines 188-200: the antenna badge, the uptime footer and display.display()
RenderBadge ==
    /\ pc = "badge"
    /\ UNCHANGED <<diagVars, hexVars>>
    /\ LET f == [fb EXCEPT
                   !.badge = IF BadgeDue
                               THEN (IF antennaOpen THEN "ANT OPEN" ELSE "ANT OK")
                               ELSE "none",
                   !.up = U32Div1000(now)]
       IN  fb' = f /\ shown' = f
    /\ pc' = "drain"
    /\ UNCHANGED <<now, rxFifo, quota, txtBuf, idx, oob, antennaOpen,
                   lastAntennaMsg, lastUi, gps, counter, curLine, lineDone, examined, gclock,
                   gStatusAt, gLastRender, gTicks, rxLog, encoded>>

\* Time passes between two statements of loop() (not while a received burst
\* is being drained: a byte is handled within well under a millisecond)
Advance(steps, horizon) ==
    /\ pc \in {"drain", "ui", "render", "badge"}
    /\ UNCHANGED <<diagVars, hexVars>>
    /\ rxFifo = <<>>
    /\ \E d \in steps :
         /\ gclock + d <= horizon
         /\ now' = U32Add(now, d)
         /\ gclock' = gclock + d
    /\ UNCHANGED <<pc, rxFifo, quota, txtBuf, idx, oob, antennaOpen,
                   lastAntennaMsg, lastUi, gps, counter, fb, shown, curLine,
                   lineDone, examined, gStatusAt, gLastRender, gTicks, rxLog, encoded>>

Tick(horizon) == Advance(TickSteps, horizon)

UiNext ==
    \/ DispSetup \/ Arrive(UiWords) \/ ReadByte(AnyCommit) \/ DrainDone
    \/ UiCheck \/ Render \/ RenderBadge \/ Tick(UiHorizon)

BadgeNext ==
    \/ DispSetup \/ Arrive(StatusLines) \/ ReadByte(NoCommit) \/ DrainDone
    \/ UiCheck \/ Render \/ RenderBadge \/ Tick(BadgeHorizon)

LineNext ==
    \/ DispSetup \/ Arrive(LineSet) \/ ReadByte(NoCommit) \/ DrainDone
    \/ UiCheck \/ Render \/ RenderBadge \/ Tick(LineHorizon)

\* the steps of setup() and loop(), as opposed to the receiver's and the
\* clock's
UiProgram ==
    \/ DispSetup \/ ReadByte(AnyCommit) \/ DrainDone
    \/ UiCheck \/ Render \/ RenderBadge

\* the display program with a receiver that sends short sentences, any
\* number of them
FairNext ==
    \/ DispSetup \/ Arrive(LateLines) \/ ReadByte(AnyCommit) \/ DrainDone
    \/ UiCheck \/ Render \/ RenderBadge \/ Tick(FairHorizon)

LateNext ==
    \/ Arrive(LateLines) \/ ReadByte(AnyCommit) \/ DrainDone
    \/ UiCheck \/ Render \/ RenderBadge \/ Advance(LateSteps, LateHorizon)

-----------------------------------------------------------------------------
(* Specifications *)

\* a program that is not the one under examination stays as it is
DiagOff == DiagInit
HexOff == hb = 0 /\ hout = <<>> /\ hpc = "off"
DispOff ==
    /\ pc = "off"
    /\ now = U32(0)
    /\ rxFifo = <<>>
    /\ quota = 0
    /\ txtBuf = <<>>
    /\ idx = 0
    /\ oob = FALSE
    /\ antennaOpen = FALSE
    /\ lastAntennaMsg = U32(0)
    /\ lastUi = U32(0)
    /\ gps = <<>>
    /\ counter = 0
    /\ fb = NoFrame
    /\ shown = NoFrame
    /\ curLine = <<>>
    /\ lineDone = <<>>
    /\ examined = <<>>
    /\ gclock = 0
    /\ gStatusAt = -1
    /\ gLastRender = 0
    /\ gTicks = 0
    /\ rxLog = <<>>
    /\ encoded = <<>>

\* the diagnostic
InitDiag == DiagInit /\ HexOff /\ DispOff
SpecDiag == InitDiag /\ [][DiagNext]_vars

\* the diagnostic with a streaming receiver; the processor keeps executing
\* the program
InitDiagStream == DiagInit /\ HexOff /\ DispOff
SpecDiagStream ==
    InitDiagStream /\ [][DiagStreamNext]_vars /\ WF_vars(DiagStreamNext)

\* the rendering of a byte, for every byte
InitHex == HexInit /\ DiagOff /\ DispOff
SpecHex == InitHex /\ [][HexNext]_vars

\* the display program with a receiver that sends sentences and fixes
InitUi == DispInit(-1) /\ DiagOff /\ HexOff
SpecUi == InitUi /\ [][UiNext]_vars

\* the display program with a receiver that sends short sentences, and the
\* processor keeps executing the program
InitUiFair == DispInit(-1) /\ DiagOff /\ HexOff
SpecUiFair == InitUiFair /\ [][FairNext]_vars /\ WF_vars(UiProgram)

\* the display program with a receiver that sends antenna status lines
InitBadge == DispInit(-1) /\ DiagOff /\ HexOff
SpecBadge == InitBadge /\ [][BadgeNext]_vars

\* the display program with a receiver that sends a few lines of any kind
InitLine == DispInit(MaxLines) /\ DiagOff /\ HexOff
SpecLine == InitLine /\ [][LineNext]_vars

\* the display program long after boot
InitLate == DispLate(MaxLateLines) /\ DiagOff /\ HexOff
SpecLate == InitLate /\ [][LateNext]_vars

-----------------------------------------------------------------------------
(* Properties of the diagnostic (SpecDiag) *)

Bauds == <<9600, 38400, 115200>>

\* the i-th capture window of the nested order power, wake, pin variant, baud
ExpectedWindow(i) ==
    LET j == i - 1
        power == j \div 12
        wake == (j \div 6) % 2
        variantB == ((j \div 3) % 2) = 1
        baud == Bauds[(j % 3) + 1]
    IN  <<IF power = 1 THEN HIGH ELSE LOW, IF wake = 1 THEN HIGH ELSE LOW,
          IF variantB THEN RXB ELSE RXA, IF variantB THEN TXB ELSE TXA, baud>>

ExpectedWindows == [i \in 1..24 |-> ExpectedWindow(i)]

DonePrinted == trace # <<>> /\ trace[Len(trace)][1] = "DONE"

\* C1: the capture windows of a run are, in this order, one for every
\* combination of power level, wake level, pin variant and baud rate: power
\* outermost, then wake, then pin variant (A before B), then baud (9600,
\* 38400, 115200); when setup has finished each combination had one window.
C1_SweepOrder ==
    /\ Len(windows) <= 24
    /\ windows = SubSeq(ExpectedWindows, 1, Len(windows))
    /\ DonePrinted =>
         /\ windows = ExpectedWindows
         /\ Cardinality({windows[i] : i \in 1..Len(windows)}) = 24

C1_Witness == DonePrinted /\ dpc = "loop" /\ Len(windows) = 24

\* C2 as stated: 144 capture windows have run when "DONE" is printed.
C2_Count144 == DonePrinted => Len(windows) = 144

\* C2 as amended: when "DONE" is printed exactly 24 capture windows have run,
\* 6 for each of the 4 combinations of power level and wake level.
C2_Count24 ==
    DonePrinted =>
      /\ Len(windows) = 24
      /\ \A a, b \in {LOW, HIGH} :
           Cardinality({i \in 1..Len(windows) :
                          windows[i][1] = a /\ windows[i][2] = b}) = 6

C2_Witness == DonePrinted /\ Len(windows) = 24 /\ lastCount >= 0

\* C3: when a capture window prints its byte count, exactly 3000 ms have
\* passed since the window started, whatever bytes arrived.
C3_Exactly3000 == dpc = "print" => U32Sub(dnow, startAt) = U32(DUMP_MS)

-----------------------------------------------------------------------------
(* Properties of the rendering of a byte (SpecHex) *)

HexTable == <<48, 49, 50, 51, 52, 53, 54, 55, 56, 57, 65, 66, 67, 68, 69, 70>>

-----------------------------------------------------------------------------
(* Properties of the line sniffing (SpecLine, SpecUi) *)

\* a step of loop that reads a line terminator
ReadsNL ==
    pc = "drain" /\ rxFifo # <<>> /\ Head(rxFifo) = NL /\ rxFifo' = Tail(rxFifo)

\* a step of loop that reads a byte
ReadsByte == pc = "drain" /\ rxFifo # <<>> /\ rxFifo' = Tail(rxFifo)

\* The part of a received line the sniffing can see: the line from its last
\* '$' on, its first 79 bytes, up to the first NUL of those
FromLastDollar(l) ==
    LET ds == {i \in 1..Len(l) : l[i] = DOLLAR}
    IN  IF ds = {} THEN l
        ELSE SubSeq(l, CHOOSE i \in ds : \A j \in ds : j <= i, Len(l))

FirstBytes(l, n) == SubSeq(l, 1, IF Len(l) < n THEN Len(l) ELSE n)

UpToNul(l) ==
    LET zs == {i \in 1..Len(l) : l[i] = NUL}
    IN  IF zs = {} THEN l
        ELSE SubSeq(l, 1, (CHOOSE i \in zs : \A j \in zs : i <= j) - 1)

SniffText(l) == UpToNul(FirstBytes(FromLastDollar(l), TxtBufSize - 1))

\* C5 as stated: every line that contains "ANTENNA", when its terminator is
\* processed, sets the antenna flag to whether the line contains "OPEN" and
\* the status timestamp to the current time.
C5_EveryKeywordLine ==
    [][ReadsNL /\ Contains(lineDone', ANTENNA) =>
          /\ antennaOpen' = Contains(lineDone', OPEN)
          /\ lastAntennaMsg' = now]_vars

\* C5 as amended: every line whose visible part (from its last '$' on, its
\* first 79 bytes, up to a NUL) contains "ANTENNA", when its terminator is
\* processed, sets the antenna flag to whether that part contains "OPEN" and
\* the status timestamp to the current time.
C5_VisibleKeywordLine ==
    [][ReadsNL /\ Contains(SniffText(lineDone'), ANTENNA) =>
          /\ antennaOpen' = Contains(SniffText(lineDone'), OPEN)
          /\ lastAntennaMsg' = now
          /\ gStatusAt' = gclock]_vars

\* a status line with "OPEN" has just set the flag, after the clock moved on
C5_Witness ==
    /\ lineDone # <<>>
    /\ Contains(SniffText(lineDone), ANTENNA)
    /\ Contains(SniffText(lineDone), OPEN)
    /\ antennaOpen
    /\ gStatusAt = gclock /\ gclock > SETUP_MS
    /\ lastAntennaMsg = now

\* C6: the antenna flag and the status timestamp change only in the step
\* that reads the terminator of a line containing "ANTENNA".
C6_StatusFrame ==
    [][(antennaOpen' # antennaOpen \/ lastAntennaMsg' # lastAntennaMsg) =>
          ReadsNL /\ Contains(lineDone', ANTENNA)]_vars

\* the status has been updated and shown, a fix has been drawn since, and a
\* line without the keyword has just been read
C6_Witness ==
    /\ gStatusAt >= 0 /\ antennaOpen
    /\ shown.mode = "fix" /\ shown.badge = "ANT OPEN"
    /\ lineDone = <<DOLLAR, NL>>
    /\ gclock > gStatusAt

\* C7: at every line terminator the text examined for the keyword is the
\* visible part of the line that the terminator ends: no byte of an earlier
\* line is in it.
C7_NoResidue == lineDone # <<>> => examined = SniffText(lineDone)

\* a short line has been examined after an earlier line left "ANTENNA"
\* further back in the buffer
C7_Witness ==
    /\ lineDone = <<DOLLAR, NL>>
    /\ examined = <<DOLLAR, NL>>
    /\ \E i \in 3..(TxtBufSize - Len(ANTENNA)) :
         \A k \in 1..Len(ANTENNA) : txtBuf[i + k - 1] = ANTENNA[k]

\* C8: the write index stays in 0..79, nothing is written outside the
\* buffer, the last byte of the buffer stays NUL, after a byte is appended
\* the buffer holds NUL at the write index, and with 79 characters stored a
\* byte other than '$' leaves the buffer as it is.
C8_Bounded ==
    /\ [](idx \in 0..(TxtBufSize - 1) /\ ~oob /\ txtBuf[TxtBufSize - 1] = NUL)
    /\ [][ReadsByte =>
            /\ (Head(rxFifo) # NL /\ (idx' # idx \/ txtBuf' # txtBuf))
                  => txtBuf'[idx'] = NUL
            /\ (idx = TxtBufSize - 1 /\ Head(rxFifo) # DOLLAR)
                  => /\ txtBuf' = txtBuf
                     /\ idx' = IF Head(rxFifo) = NL THEN 0 ELSE idx]_vars

\* the buffer is full while the line goes on
C8_Witness == idx = TxtBufSize - 1 /\ Len(curLine) > TxtBufSize /\ rxFifo # <<>>

\* a step in which the receiver delivers a burst
Delivers == rxFifo = <<>> /\ rxFifo' # <<>>

\* C16: every byte read from the transport is handed to the parser exactly
\* once and in arrival order, whatever the line buffer does with it: the
\* bytes of a burst handed to the parser so far, followed by the bytes still
\* waiting, are the burst; a step that reads a byte hands that byte to the
\* parser, and nothing else is ever handed to it.
C16_ForwardedOnce ==
    /\ [](rxLog = encoded \o rxFifo)
    /\ [][ReadsByte => encoded' = Append(encoded, Head(rxFifo))]_vars
    /\ [][encoded' # encoded => (ReadsByte \/ (Delivers /\ encoded' = <<>>))]_vars

\* a line longer than the buffer with a '$' far inside has been read to its
\* end: the buffer has dropped bytes and the '$' has discarded the stored
\* ones, the parser has got all of them
C16_Witness ==
    /\ rxFifo = <<>> /\ Len(rxLog) > TxtBufSize
    /\ encoded = rxLog
    /\ \E i \in (TxtBufSize + 1)..Len(encoded) : encoded[i] = DOLLAR
    /\ Len(examined) < Len(encoded)

-----------------------------------------------------------------------------
(* Properties of the render pass (SpecBadge, SpecUi) *)

\* the step of a render pass that decides on the badge and sends the frame
BadgeStep == pc = "badge" /\ pc' = "drain"

\* C9: a render pass draws the badge only if an antenna-status update
\* happened less than 5000 ms before; without any update so far it draws none.
C9_BadgeOnlyAfterStatus ==
    [][BadgeStep /\ shown'.badge # "none" =>
          gStatusAt >= 0 /\ gclock - gStatusAt < BADGE_MS]_vars

\* the step of loop that decides on the render pass
DecidesUi == pc = "ui" /\ pc' # "ui"

\* C10: an iteration renders exactly if the parser reports an update or at
\* least 1000 ms have passed since the timestamp of the last render pass
\* (since boot before the first one); a render pass without a parser
\* update comes at least 1000 ms after the previous one; an iteration that
\* does not render leaves the frame, the panel and the timestamp alone, and
\* they change in no step outside setup and the render pass.
C10_RedrawIff ==
    /\ [][DecidesUi =>
            /\ (pc' = "render") <=>
                 (GpsUpdated \/ gclock - gLastRender >= UI_PERIOD_MS)
            /\ pc' # "render" =>
                 (pc' = "drain" /\ UNCHANGED <<lastUi, gLastRender, fb, shown>>)]_vars
    /\ [][(pc = "render" /\ pc' = "badge" /\ ~GpsUpdated) =>
            gclock' - gLastRender >= UI_PERIOD_MS]_vars
    /\ [][(lastUi' # lastUi \/ fb' # fb \/ shown' # shown) =>
            pc \in {"setup", "render", "badge"}]_vars

\* a parser update is about to cause a render pass less than 1000 ms after
\* the previous one
C10_Witness ==
    /\ pc = "render" /\ GpsUpdated
    /\ gLastRender > 0 /\ gclock - gLastRender < UI_PERIOD_MS

\* What the program does for the i-th capture window up to the printed
\* count; for the first window of a combination of power and wake level,
\* first the header of the combination, the power level, the wake level and
\* the reset pulse
ExpectedEvents(i) ==
    LET e == ExpectedWindow(i)
    IN  (IF (i - 1) % 6 = 0
           THEN << <<"header", (i - 1) \div 12, ((i - 1) \div 6) % 2, 0>>,
                   <<"pin", VGNSS_CTRL, e[1], 0>>,
                   <<"pin", GNSS_WAKE, e[2], 0>>,
                   <<"pin", GNSS_RST, LOW, 0>>,
                   <<"pin", GNSS_RST, HIGH, 0>> >>
           ELSE << >>)
        \o << <<"combo", e[3], e[4], e[5]>>,
               <<"end", 0, 0, 0>>,
               <<"begin", e[3], e[4], e[5]>>,
               <<"window", 0, 0, 0>>,
               <<"count", 0, 0, 0>> >>

RECURSIVE ExpectedUpTo(_)
ExpectedUpTo(i) == IF i = 0 THEN << >> ELSE ExpectedUpTo(i - 1) \o ExpectedEvents(i)

ExpectedTrace == Append(ExpectedUpTo(24), <<"DONE", 0, 0, 0>>)

\* C14: for each of the 4 combinations the power level is written, then
\* the wake level, then the reset pin low and high, before the first of the
\* combination's 6 capture windows and at no other place; each window is
\* preceded by the end of the transport and then its begin with the pins and
\* the baud rate of that window.  That is: what the program has done so far
\* is always a prefix of this one sequence, and the transport is configured
\* as the last begin of that prefix says.
C14_Order ==
    /\ Len(trace) <= Len(ExpectedTrace)
    /\ trace = SubSeq(ExpectedTrace, 1, Len(trace))
    /\ LET n == Len(windows) + (IF dpc = "dump" THEN 1 ELSE 0)
       IN  uart = IF n = 0 THEN << >> ELSE SubSeq(ExpectedWindow(n), 3, 5)

C14_Witness == trace = ExpectedTrace /\ dpc = "loop"

\* C15: the count printed at the end of a capture window is the number of
\* bytes read and printed during that window: the count is 0 and the console
\* line empty when the window starts, the line grows only by the group
\* printed for one byte in a pass of the inner loop, the count is the number
\* of groups on the line throughout the window, and that number is printed.
C15_CountOfWindow ==
    /\ [][dpc' \in {"outer", "inner", "print"} => cnt' = Len(dumpLine')]_vars
    /\ [][(dpc = "dump" /\ dpc' # "dump") => (cnt' = 0 /\ dumpLine' = <<>>)]_vars
    /\ [][dumpLine' # dumpLine =>
            \/ dpc = "dump" /\ dumpLine' = <<>>
            \/ /\ dpc = "inner"
               /\ Len(dumpLine') = Len(dumpLine) + 1
               /\ SubSeq(dumpLine', 1, Len(dumpLine)) = dumpLine]_vars
    /\ [][(dpc = "print" /\ dpc' # "print") =>
            (lastCount' = Len(dumpLine) /\ dumpLine' = dumpLine)]_vars
    /\ [][lastCount' # lastCount => dpc = "print"]_vars

\* a window with one byte is about to print its count after a window with two
C15_Witness == dpc = "print" /\ cnt = 1 /\ lastCount = 2 /\ Len(dumpLine) = 1

-----------------------------------------------------------------------------
(* Termination of the diagnostic (SpecDiagStream) *)

\* C12: whatever bytes arrive and when, setup eventually prints "DONE", and
\* once "DONE" is printed no pin is written, the transport is not
\* reconfigured and nothing more is printed.
C12_EventuallyDone ==
    /\ <>DonePrinted
    /\ [][DonePrinted => UNCHANGED <<pins, uart, trace, dumpLine, lastCount>>]_vars

-----------------------------------------------------------------------------
(* Termination of an iteration of the display program (SpecUiFair) *)

EveryDrainEnds == (pc = "drain") ~> (pc = "ui")

\* 1000 ms or more have passed since the last render pass (since boot
\* before the first one)
PeriodOver == gclock - gLastRender >= UI_PERIOD_MS

\* C17: if loop() keeps being invoked and each iteration finds only finitely
\* many bytes, then whenever 1000 ms or more have passed since the last
\* render pass another render pass follows, with or without bytes and parser
\* updates (so with a clock that keeps advancing render passes occur again
\* and again); the iteration that decides on the redraw at such a time is
\* the one that renders; and every render pass gets to display.display()
\* with the uptime of that moment in the footer.
C17_RendersRecur ==
    /\ EveryDrainEnds =>
          /\ PeriodOver ~> (pc = "render")
          /\ (pc = "render") ~> (pc = "drain" /\ shown.up = gclock \div 1000)
    /\ [][(DecidesUi /\ PeriodOver) => pc' = "render"]_vars

\* four render passes, a second apart, without a byte ever received: the
\* footer shows the fourth second
C17_Witness ==
    /\ rxLog = <<>> /\ gStatusAt = -1 /\ ~gps.timeValid /\ ~gps.locValid
    /\ counter = 4 /\ pc = "drain"
    /\ gLastRender = SETUP_MS + 3 * UI_PERIOD_MS
    /\ shown.mode = "search" /\ shown.up = 4

-----------------------------------------------------------------------------
(* Properties of the progress bar (SpecLate) *)

\* the step of a render pass that draws the SEARCHING frame
SearchingPass == pc = "render" /\ pc' = "badge" /\ fb'.mode = "search"

\* C11: in every SEARCHING render pass, after any number of earlier ones,
\* the progress value handed to the progress bar is (tick / 5) mod 100, tick
\* being the number of SEARCHING render passes before this one, and lies in
\* 0..99.
C11_ProgressInRange ==
    [][SearchingPass =>
          /\ fb'.progress = gTicks \div 5
          /\ fb'.progress \in 0..99]_vars

-----------------------------------------------------------------------------
(* The elapsed-time test across the wrap of millis() (SpecLate) *)

\* millis() has wrapped since the timestamp of the last render pass
WrappedSinceRender == U32Less(now, lastUi)

\* C18: also when millis() wraps modulo 2^32 between two render passes, an
\* iteration without a parser update renders exactly if 1000 ms or more
\* have really passed since the last render pass: not earlier, not later.
C18_RedrawAcrossWrap ==
    [][(DecidesUi /\ ~GpsUpdated) =>
          ((pc' = "render") <=> (gclock - gLastRender >= UI_PERIOD_MS))]_vars

\* a time-triggered render pass is about to run with millis() wrapped to a
\* value below the timestamp of the pass before
C18_Witness ==
    /\ pc = "render" /\ ~GpsUpdated /\ WrappedSinceRender
    /\ gclock - gLastRender >= UI_PERIOD_MS

=============================================================================
